---- MODULE Spec2Model ----
(***************************************************************************)
(* Model of the datadog-mcp request-authorization core:                    *)
(*   src/src/allowlist.ts   the allow/deny policy and the path matcher     *)
(*   src/unnamed/part_000   scripts/build-spec.ts, the catalog reducer     *)
(*   src/src/executor.ts    the runtime gateway datadog.request            *)
(*                                                                         *)
(* A JavaScript string is a sequence of one-character strings, so that     *)
(* split, startsWith, endsWith and toUpperCase are computed on characters. *)
(*                                                                         *)
(* src/src/allowlist.ts holds the policy twice: lines 1-67 without the     *)
(* safe-POST tier and lines 69-161 with it. The model follows lines        *)
(* 69-161, the three-tier policy: the execute tool documents a POST to     *)
(* /api/v2/logs/events/search, which only that version allows.             *)
(***************************************************************************)
EXTENDS Integers, Sequences, FiniteSets, TLC

VARIABLES
    method,         \* policy: the method argument
    path,           \* policy: the path argument
    specResult,     \* policy: <<b>> once isAllowedSpecEndpoint returned b, else <<>>
    runtimeResult,  \* policy: <<b>> once isAllowedRuntimeRequest returned b, else <<>>
    patSegs,        \* matcher: segments of the pattern argument of matchPathPattern
    concSegs,       \* matcher: segments of the concrete argument of matchPathPattern
    matchResult,    \* matcher: <<b>> once matchPathPattern returned b, else <<>>
    entry,          \* substitution: index of a WRITE_ALLOWLIST entry
    value,          \* substitution: the value put in place of each {param}
    subPath,        \* substitution: <<p>> once the concrete path p is built, else <<>>
    subRuntime,     \* substitution: isAllowedRuntimeRequest on the built path
    subSpec,        \* substitution: isAllowedSpecEndpoint on the template
    upstream,       \* catalog: spec.paths, a sequence of [path, item] entries
    catalog,        \* catalog: <<r>> once processSpec returned r, else <<>>
    calls,          \* gateway: per call slot, the state of one datadog.request
    fetchLog,       \* gateway: every fetch issued, in order
    tool,           \* gateway: the execute tool's handler running the agent code
    tables,         \* tables: the module's WRITE_ALLOWLIST, SAFE_POST_SUFFIXES, READ_METHODS
    history,        \* tables: the policy calls made so far, with their results
    edit,           \* tables: how the allowlist was rewritten before the calls
    disk,           \* staleness: the manifest, spec.json and allowlist.ts on disk
    remote,         \* staleness: the Content-Length each upstream spec is served with
    heads,          \* staleness: per upstream spec, how its HEAD request settled
    stale,          \* staleness: ensureSpec's position, locals and result
    rendered,       \* truncation: the rendered response given to truncateResponse
    truncated,      \* truncation: <<r>> once truncateResponse returned r, else <<>>
    reqMethod,      \* url: options.method of one datadog.request
    reqPath,        \* url: options.path of one datadog.request
    sent            \* url: <<>>, or <<r>> for what became of the request

policyVars == <<method, path, specResult, runtimeResult>>
matchVars == <<patSegs, concSegs, matchResult>>
substVars == <<entry, value, subPath, subRuntime, subSpec>>
catalogVars == <<upstream, catalog>>
gatewayVars == <<calls, fetchLog, tool>>
tableVars == <<tables, history, edit>>
staleVars == <<disk, remote, heads, stale>>
truncVars == <<rendered, truncated>>
urlVars == <<reqMethod, reqPath, sent>>
vars == <<policyVars, matchVars, substVars, catalogVars, gatewayVars,
         tableVars, staleVars, truncVars, urlVars>>

---------------------------------------------------------------------------
(* Bounds of the model *)

MaxTail == 3
MaxSegs == 3
MaxValLen == 3
MaxPaths == 2
NumCalls == 2
MaxHistory == 3
MaxSecondRun == 3

---------------------------------------------------------------------------
(* JavaScript string primitives *)

LOWER == <<"a", "b", "c", "d", "e", "f", "g", "h", "i", "j", "k", "l", "m",
           "n", "o", "p", "q", "r", "s", "t", "u", "v", "w", "x", "y", "z">>
UPPER == <<"A", "B", "C", "D", "E", "F", "G", "H", "I", "J", "K", "L", "M",
           "N", "O", "P", "Q", "R", "S", "T", "U", "V", "W", "X", "Y", "Z">>

toUpperCaseChar(c) ==
    IF \E i \in 1..Len(LOWER) : LOWER[i] = c
    THEN UPPER[CHOOSE i \in 1..Len(LOWER) : LOWER[i] = c]
    ELSE c

\* String.prototype.toUpperCase on the ASCII range
toUpperCase(s) == [i \in 1..Len(s) |-> toUpperCaseChar(s[i])]

\* String.prototype.startsWith
startsWith(s, prefix) ==
    /\ Len(prefix) <= Len(s)
    /\ SubSeq(s, 1, Len(prefix)) = prefix

\* String.prototype.endsWith
endsWith(s, suffix) ==
    /\ Len(suffix) <= Len(s)
    /\ SubSeq(s, Len(s) - Len(suffix) + 1, Len(s)) = suffix

\* String.prototype.split("/"): the pieces between the separators; a string
\* with no separator (the empty string included) gives one piece.
RECURSIVE split(_)
split(s) ==
    IF \A i \in 1..Len(s) : s[i] # "/"
    THEN <<s>>
    ELSE LET k == CHOOSE i \in 1..Len(s) :
                      /\ s[i] = "/"
                      /\ \A j \in 1..(i - 1) : s[j] # "/"
         IN  <<SubSeq(s, 1, k - 1)>> \o split(SubSeq(s, k + 1, Len(s)))

\* Array.prototype.join("/")
RECURSIVE join(_)
join(parts) ==
    IF Len(parts) = 0 THEN <<>>
    ELSE IF Len(parts) = 1 THEN parts[1]
    ELSE parts[1] \o <<"/">> \o join(Tail(parts))

\* All strings over an alphabet of length at most n
RECURSIVE StringsUpTo(_, _)
StringsUpTo(alphabet, n) ==
    IF n = 0 THEN {<<>>}
    ELSE LET shorter == StringsUpTo(alphabet, n - 1)
         IN  shorter \cup {Append(s, c) : s \in shorter, c \in alphabet}

---------------------------------------------------------------------------
(* String literals of the source *)

GET == <<"G", "E", "T">>
HEAD == <<"H", "E", "A", "D">>
POST == <<"P", "O", "S", "T">>
PUT == <<"P", "U", "T">>
PATCH == <<"P", "A", "T", "C", "H">>
DELETE == <<"D", "E", "L", "E", "T", "E">>

ApiV1 == <<"/", "a", "p", "i", "/", "v", "1">>
ApiV2 == <<"/", "a", "p", "i", "/", "v", "2">>
Notebooks == ApiV1 \o <<"/", "n", "o", "t", "e", "b", "o", "o", "k", "s">>
Dashboard == ApiV1 \o <<"/", "d", "a", "s", "h", "b", "o", "a", "r", "d">>
NotebookId == Notebooks \o
    <<"/", "{", "n", "o", "t", "e", "b", "o", "o", "k", "_", "i", "d", "}">>
DashboardId == Dashboard \o
    <<"/", "{", "d", "a", "s", "h", "b", "o", "a", "r", "d", "_", "i", "d", "}">>

LogsEventsSearch ==
    ApiV2 \o <<"/", "l", "o", "g", "s", "/", "e", "v", "e", "n", "t", "s">>
          \o <<"/", "s", "e", "a", "r", "c", "h">>

\* Mutant of WRITE_ALLOWLIST: one more write operation than the documented six
WRITE_ALLOWLIST_ExtraPatch == <<
    [method |-> POST, path |-> Notebooks],
    [method |-> PUT, path |-> NotebookId],
    [method |-> DELETE, path |-> NotebookId],
    [method |-> PATCH, path |-> NotebookId],
    [method |-> POST, path |-> Dashboard],
    [method |-> PUT, path |-> DashboardId],
    [method |-> DELETE, path |-> DashboardId] >>

WRITE_ALLOWLIST == <<
    [method |-> POST, path |-> Notebooks],
    [method |-> PUT, path |-> NotebookId],
    [method |-> DELETE, path |-> NotebookId],
    [method |-> POST, path |-> Dashboard],
    [method |-> PUT, path |-> DashboardId],
    [method |-> DELETE, path |-> DashboardId] >>

SAFE_POST_SUFFIXES == <<
    <<"/", "s", "e", "a", "r", "c", "h">>,
    <<"/", "a", "g", "g", "r", "e", "g", "a", "t", "e">>,
    <<"/", "a", "n", "a", "l", "y", "t", "i", "c", "s">>,
    <<"/", "q", "u", "e", "r", "y">>,
    <<"/", "e", "s", "t", "i", "m", "a", "t", "e">> >>

\* Mutant of READ_METHODS: HEAD left out of the read methods
READ_METHODS_GetOnly == {GET}

READ_METHODS == {GET, HEAD}

---------------------------------------------------------------------------
(* src/src/allowlist.ts *)

\* Array.prototype.some is \E over the indices of the array, and
\* Array.prototype.every is \A over them.

\* Mutant of isSafePost: the method test left out
isSafePost_AnyMethod(m, p) ==
    \E i \in 1..Len(SAFE_POST_SUFFIXES) : endsWith(p, SAFE_POST_SUFFIXES[i])

isSafePost(m, p) ==
    /\ m = POST
    /\ \E i \in 1..Len(SAFE_POST_SUFFIXES) : endsWith(p, SAFE_POST_SUFFIXES[i])

\* Mutant of matchPathPattern: a parameter segment also matches an empty one
matchPathPattern_EmptyParam(pat, conc) ==
    LET patternParts == split(pat)
        concreteParts == split(conc)
        segment(seg, i) ==
            IF startsWith(seg, <<"{">>) /\ endsWith(seg, <<"}">>)
            THEN Len(concreteParts[i]) >= 0
            ELSE seg = concreteParts[i]
    IN  IF Len(patternParts) # Len(concreteParts) THEN FALSE
        ELSE \A i \in 1..Len(patternParts) : segment(patternParts[i], i)

\* Mutant of matchPathPattern: only a shorter concrete path is turned down,
\* so the pattern matches as a prefix
matchPathPattern_Prefix(pat, conc) ==
    LET patternParts == split(pat)
        concreteParts == split(conc)
        segment(seg, i) ==
            IF startsWith(seg, <<"{">>) /\ endsWith(seg, <<"}">>)
            THEN Len(concreteParts[i]) > 0
            ELSE seg = concreteParts[i]
    IN  IF Len(patternParts) > Len(concreteParts) THEN FALSE
        ELSE \A i \in 1..Len(patternParts) : segment(patternParts[i], i)

matchPathPattern(pat, conc) ==
    LET patternParts == split(pat)
        concreteParts == split(conc)
        segment(seg, i) ==
            IF startsWith(seg, <<"{">>) /\ endsWith(seg, <<"}">>)
            THEN Len(concreteParts[i]) > 0
            ELSE seg = concreteParts[i]
    IN  IF Len(patternParts) # Len(concreteParts) THEN FALSE
        ELSE \A i \in 1..Len(patternParts) : segment(patternParts[i], i)

\* Mutant of isAllowedSpecEndpoint: pattern matching in place of equality
isAllowedSpecEndpoint_PatternMatch(m, p) ==
    LET upper == toUpperCase(m)
        listed(e) == e.method = upper /\ matchPathPattern(e.path, p)
    IN  IF upper \in READ_METHODS THEN TRUE
        ELSE IF isSafePost(upper, p) THEN TRUE
        ELSE \E i \in 1..Len(WRITE_ALLOWLIST) : listed(WRITE_ALLOWLIST[i])

\* Mutant of isAllowedSpecEndpoint: the entry's method is not compared
isAllowedSpecEndpoint_NoMethodCheck(m, p) ==
    LET upper == toUpperCase(m)
        listed(e) == e.path = p
    IN  IF upper \in READ_METHODS THEN TRUE
        ELSE IF isSafePost(upper, p) THEN TRUE
        ELSE \E i \in 1..Len(WRITE_ALLOWLIST) : listed(WRITE_ALLOWLIST[i])

isAllowedSpecEndpoint(m, p) ==
    LET upper == toUpperCase(m)
        listed(e) == e.method = upper /\ e.path = p
    IN  IF upper \in READ_METHODS THEN TRUE
        ELSE IF isSafePost(upper, p) THEN TRUE
        ELSE \E i \in 1..Len(WRITE_ALLOWLIST) : listed(WRITE_ALLOWLIST[i])

\* Mutant of isAllowedRuntimeRequest: the entry's method is not compared
isAllowedRuntimeRequest_NoMethodCheck(m, p) ==
    LET upper == toUpperCase(m)
        listed(e) == matchPathPattern(e.path, p)
    IN  IF upper \in READ_METHODS THEN TRUE
        ELSE IF isSafePost(upper, p) THEN TRUE
        ELSE \E i \in 1..Len(WRITE_ALLOWLIST) : listed(WRITE_ALLOWLIST[i])

\* Mutant of isAllowedRuntimeRequest: equality in place of pattern matching
isAllowedRuntimeRequest_ExactMatch(m, p) ==
    LET upper == toUpperCase(m)
        listed(e) == e.method = upper /\ e.path = p
    IN  IF upper \in READ_METHODS THEN TRUE
        ELSE IF isSafePost(upper, p) THEN TRUE
        ELSE \E i \in 1..Len(WRITE_ALLOWLIST) : listed(WRITE_ALLOWLIST[i])

\* Mutant of isAllowedRuntimeRequest: isSafePost is given the method as
\* written, not the uppercased one
isAllowedRuntimeRequest_RawMethod(m, p) ==
    LET upper == toUpperCase(m)
        listed(e) == e.method = upper /\ matchPathPattern(e.path, p)
    IN  IF upper \in READ_METHODS THEN TRUE
        ELSE IF isSafePost(m, p) THEN TRUE
        ELSE \E i \in 1..Len(WRITE_ALLOWLIST) : listed(WRITE_ALLOWLIST[i])

\* Mutant of isAllowedRuntimeRequest: the function has a table of its own,
\* a copy that has fallen behind WRITE_ALLOWLIST by its last entry
isAllowedRuntimeRequest_OwnTable(m, p) ==
    LET upper == toUpperCase(m)
        own == SubSeq(WRITE_ALLOWLIST, 1, Len(WRITE_ALLOWLIST) - 1)
        listed(e) == e.method = upper /\ matchPathPattern(e.path, p)
    IN  IF upper \in READ_METHODS THEN TRUE
        ELSE IF isSafePost(upper, p) THEN TRUE
        ELSE \E i \in 1..Len(own) : listed(own[i])

isAllowedRuntimeRequest(m, p) ==
    LET upper == toUpperCase(m)
        listed(e) == e.method = upper /\ matchPathPattern(e.path, p)
    IN  IF upper \in READ_METHODS THEN TRUE
        ELSE IF isSafePost(upper, p) THEN TRUE
        ELSE \E i \in 1..Len(WRITE_ALLOWLIST) : listed(WRITE_ALLOWLIST[i])

---------------------------------------------------------------------------
(* Inputs of the policy functions *)

MethodPool == {
    GET, HEAD, POST, PUT, PATCH, DELETE,
    <<"g", "e", "t">>, <<"h", "e", "a", "d">>, <<"p", "o", "s", "t">>,
    <<"p", "u", "t">>, <<"p", "a", "t", "c", "h">>,
    <<"d", "e", "l", "e", "t", "e">>,
    <<"G", "e", "t">>, <<"p", "O", "s", "T">>,
    <<"O", "P", "T", "I", "O", "N", "S">>, <<"o", "p", "t", "i", "o", "n", "s">>,
    <<"P", "O", "S", "T", "S">>, <<>> }

PathBases == {
    <<>>, Notebooks, Dashboard, NotebookId, DashboardId,
    ApiV1 \o <<"/", "m", "o", "n", "i", "t", "o", "r">>,
    ApiV2 \o <<"/", "l", "o", "g", "s", "/", "e", "v", "e", "n", "t", "s">> }

TailAlphabet == {"/", "9"}

PathTails ==
    StringsUpTo(TailAlphabet, MaxTail)
        \cup { <<"/", "1", "2", "3">>,
               <<"/", "1", "2", "3", "/", "e", "x", "t", "r", "a">> }

PathEndings ==
    {SAFE_POST_SUFFIXES[i] : i \in 1..Len(SAFE_POST_SUFFIXES)}
        \cup { <<>>,
               <<"s", "e", "a", "r", "c", "h">>,
               <<"/", "S", "E", "A", "R", "C", "H">> }

PathPool ==
    {b \o t \o s : b \in PathBases, t \in PathTails, s \in PathEndings}
        \cup {b \o s \o t : b \in PathBases, t \in PathTails, s \in PathEndings}

---------------------------------------------------------------------------
(* Values of the variables a specification does not use *)

IdlePolicy ==
    /\ method = <<>>
    /\ path = <<>>
    /\ specResult = <<>>
    /\ runtimeResult = <<>>

IdleMatch ==
    /\ patSegs = <<>>
    /\ concSegs = <<>>
    /\ matchResult = <<>>

IdleSubst ==
    /\ entry = 1
    /\ value = <<>>
    /\ subPath = <<>>
    /\ subRuntime = <<>>
    /\ subSpec = <<>>

IdleCatalog ==
    /\ upstream = <<>>
    /\ catalog = <<>>

IdleGateway ==
    /\ calls = <<>>
    /\ fetchLog = {}
    /\ tool = <<>>

IdleTables ==
    /\ tables = <<>>
    /\ history = <<>>
    /\ edit = "none"

IdleUrl ==
    /\ reqMethod = <<>>
    /\ reqPath = <<>>
    /\ sent = <<>>

IdleTrunc ==
    /\ rendered = <<>>
    /\ truncated = <<>>

IdleStale ==
    /\ disk = <<>>
    /\ remote = <<>>
    /\ heads = <<>>
    /\ stale = <<>>

---------------------------------------------------------------------------
(* The policy functions applied to one (method, path) *)

Init ==
    /\ method \in MethodPool
    /\ path \in PathPool
    /\ specResult = <<>>
    /\ runtimeResult = <<>>
    /\ IdleMatch /\ IdleSubst /\ IdleCatalog /\ IdleGateway
    /\ IdleStale
    /\ IdleTables
    /\ IdleTrunc
    /\ IdleUrl

CallSpecEndpoint ==
    /\ specResult = <<>>
    /\ specResult' = <<isAllowedSpecEndpoint(method, path)>>
    /\ UNCHANGED <<method, path, runtimeResult>>
    /\ UNCHANGED <<matchVars, substVars, catalogVars, gatewayVars, tableVars,
                 staleVars, truncVars, urlVars>>

CallRuntimeRequest ==
    /\ runtimeResult = <<>>
    /\ runtimeResult' = <<isAllowedRuntimeRequest(method, path)>>
    /\ UNCHANGED <<method, path, specResult>>
    /\ UNCHANGED <<matchVars, substVars, catalogVars, gatewayVars, tableVars,
                 staleVars, truncVars, urlVars>>

Next ==
    \/ CallSpecEndpoint
    \/ CallRuntimeRequest

Spec == Init /\ [][Next]_vars

---------------------------------------------------------------------------
(* The rules of the policy, as the claims state them *)

EndsInSafeSuffix(p) ==
    \E i \in 1..Len(SAFE_POST_SUFFIXES) : endsWith(p, SAFE_POST_SUFFIXES[i])

ListedExactly(m, p) ==
    \E i \in 1..Len(WRITE_ALLOWLIST) :
        WRITE_ALLOWLIST[i].method = m /\ WRITE_ALLOWLIST[i].path = p

ListedByPattern(m, p) ==
    \E i \in 1..Len(WRITE_ALLOWLIST) :
        /\ WRITE_ALLOWLIST[i].method = m
        /\ matchPathPattern(WRITE_ALLOWLIST[i].path, p)

IsWriteNotSafePost(m, p) ==
    /\ toUpperCase(m) \notin {GET, HEAD}
    /\ ~(toUpperCase(m) = POST /\ EndsInSafeSuffix(p))

\* C1: for every method that uppercases to GET or HEAD and every path (the
\* empty path included), isAllowedSpecEndpoint and isAllowedRuntimeRequest
\* both return true.
C1_ReadsAllowed ==
    toUpperCase(method) \in {GET, HEAD} =>
        /\ specResult # <<FALSE>>
        /\ runtimeResult # <<FALSE>>

C1_Witness ==
    /\ method = <<"h", "e", "a", "d">>
    /\ path = <<>>
    /\ specResult = <<TRUE>>
    /\ runtimeResult = <<TRUE>>

\* C2: deny by default: for a method other than GET/HEAD, when the pair is
\* not a POST ending in a safe-read suffix and no WRITE_ALLOWLIST entry
\* matches (equality at catalog time, pattern match at request time), the
\* function returns false; nothing is allowed without one of the three rules.
C2_DenyByDefault ==
    IsWriteNotSafePost(method, path) =>
        /\ ~ListedExactly(toUpperCase(method), path) => specResult # <<TRUE>>
        /\ ~ListedByPattern(toUpperCase(method), path) => runtimeResult # <<TRUE>>

C2_Witness ==
    /\ method = DELETE
    /\ path = Notebooks
    /\ specResult = <<FALSE>>
    /\ runtimeResult = <<FALSE>>

\* C5: catalog-time exactness: for a method that is neither GET/HEAD nor a
\* safe-suffix POST, isAllowedSpecEndpoint is true exactly when an entry has
\* the uppercased method and a path equal to the given one; PUT
\* /api/v1/notebooks/123 is denied and PUT /api/v1/notebooks/{notebook_id}
\* is allowed.
C5_CatalogExact ==
    /\ (IsWriteNotSafePost(method, path) /\ specResult # <<>>) =>
           specResult = <<ListedExactly(toUpperCase(method), path)>>
    /\ (method = PUT /\ path = Notebooks \o <<"/", "1", "2", "3">>) =>
           specResult # <<TRUE>>
    /\ (method = PUT /\ path = NotebookId) => specResult # <<FALSE>>

C5_Witness ==
    /\ method = PUT
    /\ path = Notebooks \o <<"/", "1", "2", "3">>
    /\ specResult = <<FALSE>>
    /\ runtimeResult = <<TRUE>>

\* C6: request-time matching: for a method that is neither GET/HEAD nor a
\* safe-suffix POST, isAllowedRuntimeRequest is true exactly when an entry
\* has the uppercased method and a path that matchPathPattern matches; DELETE
\* /api/v1/notebooks/99 is allowed, DELETE /api/v1/notebooks and PUT
\* /api/v1/notebooks/123/extra are denied.
C6_RuntimeMatch ==
    /\ (IsWriteNotSafePost(method, path) /\ runtimeResult # <<>>) =>
           runtimeResult = <<ListedByPattern(toUpperCase(method), path)>>
    /\ (method = DELETE /\ path = Notebooks \o <<"/", "9", "9">>) =>
           runtimeResult # <<FALSE>>
    /\ (method = DELETE /\ path = Notebooks) => runtimeResult # <<TRUE>>
    /\ (method = PUT /\ path = Notebooks \o
            <<"/", "1", "2", "3", "/", "e", "x", "t", "r", "a">>) =>
           runtimeResult # <<TRUE>>

C6_Witness ==
    /\ method = DELETE
    /\ path = Notebooks \o <<"/", "9", "9">>
    /\ runtimeResult = <<TRUE>>
    /\ specResult = <<FALSE>>

README_ALLOWLIST == {
    [method |-> POST, path |-> Notebooks],
    [method |-> PUT, path |-> NotebookId],
    [method |-> DELETE, path |-> NotebookId],
    [method |-> POST, path |-> Dashboard],
    [method |-> PUT, path |-> DashboardId],
    [method |-> DELETE, path |-> DashboardId] }

InReadmeExactly(m, p) ==
    \E e \in README_ALLOWLIST : e.method = m /\ e.path = p

InReadmeByPattern(m, p) ==
    \E e \in README_ALLOWLIST : e.method = m /\ matchPathPattern(e.path, p)

C12_CaseInsensitive ==
    /\ specResult # <<>> =>
           specResult = <<isAllowedSpecEndpoint(toUpperCase(method), path)>>
    /\ runtimeResult # <<>> =>
           runtimeResult = <<isAllowedRuntimeRequest(toUpperCase(method), path)>>
    /\ method \in {<<"g", "e", "t">>, <<"h", "e", "a", "d">>} =>
           specResult # <<FALSE>> /\ runtimeResult # <<FALSE>>
    /\ (method = <<"p", "o", "s", "t">> /\ path \in {Notebooks, Dashboard}) =>
           specResult # <<FALSE>> /\ runtimeResult # <<FALSE>>

C12_Witness ==
    /\ method = <<"p", "O", "s", "T">>
    /\ toUpperCase(method) = POST
    /\ path = LogsEventsSearch
    /\ specResult = <<TRUE>>
    /\ runtimeResult = <<TRUE>>

\* C13: a method that does not uppercase to GET, HEAD, POST, PUT, PATCH or
\* DELETE (the empty method included) is denied by both functions on every
\* path, paths ending in a safe-read suffix and paths matching an allowlist
\* template included; and for every method other than GET/HEAD the empty
\* path is denied.
C13_UnrecognizedDenied ==
    /\ toUpperCase(method) \notin {GET, HEAD, POST, PUT, PATCH, DELETE} =>
           specResult # <<TRUE>> /\ runtimeResult # <<TRUE>>
    /\ (toUpperCase(method) \notin {GET, HEAD} /\ path = <<>>) =>
           specResult # <<TRUE>> /\ runtimeResult # <<TRUE>>

C13_Witness ==
    /\ method = <<"O", "P", "T", "I", "O", "N", "S">>
    /\ path = NotebookId \o <<"/", "s", "e", "a", "r", "c", "h">>
    /\ EndsInSafeSuffix(path)
    /\ specResult = <<FALSE>>
    /\ runtimeResult = <<FALSE>>

\* C22: what isAllowedSpecEndpoint allows, isAllowedRuntimeRequest allows on
\* the same method and path: every allowlist template matches itself under
\* matchPathPattern, and both functions read the one WRITE_ALLOWLIST and the
\* one SAFE_POST_SUFFIXES.
C22_SpecImpliesRuntime ==
    /\ specResult = <<TRUE>> => runtimeResult # <<FALSE>>
    /\ \A i \in 1..Len(WRITE_ALLOWLIST) :
           (toUpperCase(method) = WRITE_ALLOWLIST[i].method
                /\ path = WRITE_ALLOWLIST[i].path) =>
               specResult # <<FALSE>> /\ runtimeResult # <<FALSE>>

C22_Witness ==
    /\ method = <<"d", "e", "l", "e", "t", "e">>
    /\ path = DashboardId
    /\ matchPathPattern(DashboardId, path)
    /\ specResult = <<TRUE>>
    /\ runtimeResult = <<TRUE>>

---------------------------------------------------------------------------
(* matchPathPattern applied to one (pattern, concrete) *)

PatSegPool == { <<>>, <<"a">>, <<"{", "i", "d", "}">>, <<"{", "}">>, <<"{", "a">> }

ConcSegPool == { <<>>, <<"a">>, <<"A">>, <<"{", "a">> }

\* The sequences of 1 to n segments of a pool
SegSeqs(pool, n) == UNION {[1..k -> pool] : k \in 1..n}

\* matches("/a/{id}/b", "/a/123/b"), matches("/a/{id}/b", "/a//b"),
\* matches("/a/{id}", "/a/123/extra"), matches("/a/b", "/a/b")
MatchExamples == {
    << <<<<>>, <<"a">>, <<"{", "i", "d", "}">>, <<"b">>>>,
       <<<<>>, <<"a">>, <<"1", "2", "3">>, <<"b">>>> >>,
    << <<<<>>, <<"a">>, <<"{", "i", "d", "}">>, <<"b">>>>,
       <<<<>>, <<"a">>, <<>>, <<"b">>>> >>,
    << <<<<>>, <<"a">>, <<"{", "i", "d", "}">>>>,
       <<<<>>, <<"a">>, <<"1", "2", "3">>, <<"e", "x", "t", "r", "a">>>> >>,
    << <<<<>>, <<"a">>, <<"b">>>>,
       <<<<>>, <<"a">>, <<"b">>>> >> }

MatchInputs ==
    (SegSeqs(PatSegPool, MaxSegs) \X SegSeqs(ConcSegPool, MaxSegs))
        \cup MatchExamples

InitMatch ==
    /\ \E pair \in MatchInputs :
           /\ patSegs = pair[1]
           /\ concSegs = pair[2]
    /\ matchResult = <<>>
    /\ IdlePolicy /\ IdleSubst /\ IdleCatalog /\ IdleGateway
    /\ IdleStale
    /\ IdleTables
    /\ IdleTrunc
    /\ IdleUrl

CallMatchPathPattern ==
    /\ matchResult = <<>>
    /\ matchResult' = <<matchPathPattern(join(patSegs), join(concSegs))>>
    /\ UNCHANGED <<patSegs, concSegs>>
    /\ UNCHANGED <<policyVars, substVars, catalogVars, gatewayVars,
                 tableVars, staleVars, truncVars, urlVars>>

NextMatch == CallMatchPathPattern

SpecMatch == InitMatch /\ [][NextMatch]_vars

\* A segment wrapped in { and }
Wrapped(seg) ==
    /\ Len(seg) >= 2
    /\ seg[1] = "{"
    /\ seg[Len(seg)] = "}"

\* The number of '/'-separated segments of a string
NumSegments(s) == 1 + Cardinality({i \in 1..Len(s) : s[i] = "/"})

\* C8: at each position, a template segment wrapped in { and } matches a
\* concrete segment exactly when that segment has length >= 1, and any other
\* template segment matches only an equal (case-sensitive) concrete segment;
\* matches("/a/{id}/b", "/a/123/b") is true, matches("/a/{id}/b", "/a//b")
\* is false.
C8_SegmentMatch ==
    /\ (Len(patSegs) = Len(concSegs) /\ matchResult # <<>>) =>
           matchResult =
               << \A i \in 1..Len(patSegs) :
                      IF Wrapped(patSegs[i])
                      THEN Len(concSegs[i]) >= 1
                      ELSE patSegs[i] = concSegs[i] >>
    /\ ( /\ patSegs = <<<<>>, <<"a">>, <<"{", "i", "d", "}">>, <<"b">>>>
         /\ concSegs = <<<<>>, <<"a">>, <<"1", "2", "3">>, <<"b">>>> ) =>
           matchResult # <<FALSE>>
    /\ ( /\ patSegs = <<<<>>, <<"a">>, <<"{", "i", "d", "}">>, <<"b">>>>
         /\ concSegs = <<<<>>, <<"a">>, <<>>, <<"b">>>> ) =>
           matchResult # <<TRUE>>

C8_Witness ==
    /\ patSegs = <<<<>>, <<"a">>, <<"{", "i", "d", "}">>, <<"b">>>>
    /\ concSegs = <<<<>>, <<"a">>, <<>>, <<"b">>>>
    /\ matchResult = <<FALSE>>

\* C9: matchPathPattern never matches when the template and the concrete
\* path have a different number of '/'-separated segments: no prefix match,
\* no trailing wildcard, and a parameter segment never takes in a '/'.
C9_SegmentCount ==
    NumSegments(join(patSegs)) # NumSegments(join(concSegs)) =>
        matchResult # <<TRUE>>

C9_Witness ==
    /\ patSegs = <<<<>>, <<"a">>, <<"{", "i", "d", "}">>>>
    /\ concSegs = <<<<>>, <<"a">>, <<"1", "2", "3">>, <<"e", "x", "t", "r", "a">>>>
    /\ matchResult = <<FALSE>>

---------------------------------------------------------------------------
(* A concrete path built from an allowlisted template, and the two policy  *)
(* functions applied to the pair                                           *)

SubstAlphabet == {"/", "7", "x"}

SubstValues == StringsUpTo(SubstAlphabet, MaxValLen)

\* The template with the value put in place of each {param} segment
substitute(template, v) ==
    LET parts == split(template)
    IN  join([i \in 1..Len(parts) |->
                 IF Wrapped(parts[i]) THEN v ELSE parts[i]])

InitSubst ==
    /\ entry \in 1..Len(WRITE_ALLOWLIST)
    /\ value \in SubstValues
    /\ subPath = <<>>
    /\ subRuntime = <<>>
    /\ subSpec = <<>>
    /\ IdlePolicy /\ IdleMatch /\ IdleCatalog /\ IdleGateway
    /\ IdleStale
    /\ IdleTables
    /\ IdleTrunc
    /\ IdleUrl

Substitute ==
    /\ subPath = <<>>
    /\ subPath' = <<substitute(WRITE_ALLOWLIST[entry].path, value)>>
    /\ UNCHANGED <<entry, value, subRuntime, subSpec>>
    /\ UNCHANGED <<policyVars, matchVars, catalogVars, gatewayVars,
                 tableVars, staleVars, truncVars, urlVars>>

SubstCallRuntime ==
    /\ subPath # <<>>
    /\ subRuntime = <<>>
    /\ subRuntime' =
           <<isAllowedRuntimeRequest(WRITE_ALLOWLIST[entry].method, subPath[1])>>
    /\ UNCHANGED <<entry, value, subPath, subSpec>>
    /\ UNCHANGED <<policyVars, matchVars, catalogVars, gatewayVars,
                 tableVars, staleVars, truncVars, urlVars>>

SubstCallSpec ==
    /\ subSpec = <<>>
    /\ subSpec' =
           <<isAllowedSpecEndpoint(WRITE_ALLOWLIST[entry].method,
                                   WRITE_ALLOWLIST[entry].path)>>
    /\ UNCHANGED <<entry, value, subPath, subRuntime>>
    /\ UNCHANGED <<policyVars, matchVars, catalogVars, gatewayVars,
                 tableVars, staleVars, truncVars, urlVars>>

NextSubst ==
    \/ Substitute
    \/ SubstCallRuntime
    \/ SubstCallSpec

SpecSubst == InitSubst /\ [][NextSubst]_vars

\* C4 as stated: for every WRITE_ALLOWLIST entry (m, t) and every concrete
\* path p built by substituting any value for each {param} segment of t,
\* isAllowedRuntimeRequest(m, p) equals isAllowedSpecEndpoint(m, t).
C4_AnyValue ==
    (subRuntime # <<>> /\ subSpec # <<>>) => subRuntime = subSpec

\* C4, amended: the same equality for every value that is not empty and
\* holds no '/'.
C4_Consistency ==
    ( /\ value # <<>>
      /\ \A i \in 1..Len(value) : value[i] # "/"
      /\ subRuntime # <<>>
      /\ subSpec # <<>> ) => subRuntime = subSpec

C4_Witness ==
    /\ WRITE_ALLOWLIST[entry] = [method |-> PUT, path |-> NotebookId]
    /\ value = <<"7">>
    /\ subPath = <<Notebooks \o <<"/", "7">>>>
    /\ subRuntime = <<TRUE>>
    /\ subSpec = <<TRUE>>

---------------------------------------------------------------------------
(* src/unnamed/part_000 (scripts/build-spec.ts): processSpec               *)
(*                                                                         *)
(* spec.paths is a sequence of [path, item] entries in Object.entries      *)
(* order, with distinct paths. An item is null (a falsy pathItem) or has   *)
(* the set ops of the keys under which it declares an operation. Of the    *)
(* object processSpec returns, paths maps each kept path to the keys of    *)
(* its methods object, beside endpointCount and removedCount; the content  *)
(* of an operation object and the products count are left out.             *)

HTTP_METHODS == <<
    <<"g", "e", "t">>, <<"p", "o", "s", "t">>, <<"p", "u", "t">>,
    <<"p", "a", "t", "c", "h">>, <<"d", "e", "l", "e", "t", "e">> >>

\* obj[key] = val
Put(obj, key, val) ==
    [k \in DOMAIN obj \cup {key} |-> IF k = key THEN val ELSE obj[k]]

\* Mutant of processMethods: a denied operation is counted as removed and
\* kept all the same (the continue left out)
RECURSIVE processMethods_NoContinue(_, _, _, _)
processMethods_NoContinue(p, item, i, acc) ==
    IF i > Len(HTTP_METHODS) THEN acc
    ELSE LET m == HTTP_METHODS[i]
         IN  IF m \notin item.ops
             THEN processMethods_NoContinue(p, item, i + 1, acc)
             ELSE processMethods_NoContinue(p, item, i + 1,
                      [acc EXCEPT
                          !.removedCount =
                              IF isAllowedSpecEndpoint(m, p) THEN @ ELSE @ + 1,
                          !.methods = @ \cup {m},
                          !.hasMethod = TRUE,
                          !.endpointCount = @ + 1])

\* The loop over HTTP_METHODS for one path item, from index i
RECURSIVE processMethods(_, _, _, _)
processMethods(p, item, i, acc) ==
    IF i > Len(HTTP_METHODS) THEN acc
    ELSE LET m == HTTP_METHODS[i]
         IN  IF m \notin item.ops
             THEN processMethods(p, item, i + 1, acc)
             ELSE IF ~isAllowedSpecEndpoint(m, p)
             THEN processMethods(p, item, i + 1,
                      [acc EXCEPT !.removedCount = @ + 1])
             ELSE processMethods(p, item, i + 1,
                      [acc EXCEPT !.methods = @ \cup {m},
                                  !.hasMethod = TRUE,
                                  !.endpointCount = @ + 1])

\* The loop over Object.entries(spec.paths), from index k
RECURSIVE processPaths(_, _, _)
processPaths(entries, k, acc) ==
    IF k > Len(entries) THEN acc
    ELSE LET e == entries[k]
         IN  IF e.item.null
             THEN processPaths(entries, k + 1, acc)
             ELSE LET r == processMethods(e.path, e.item, 1,
                               [methods |-> {},
                                hasMethod |-> FALSE,
                                endpointCount |-> acc.endpointCount,
                                removedCount |-> acc.removedCount])
                  IN  processPaths(entries, k + 1,
                          [paths |-> IF r.hasMethod
                                     THEN Put(acc.paths, e.path, r.methods)
                                     ELSE acc.paths,
                           endpointCount |-> r.endpointCount,
                           removedCount |-> r.removedCount])

processSpec(spec) ==
    processPaths(spec, 1,
        [paths |-> [k \in {} |-> {}], endpointCount |-> 0, removedCount |-> 0])

CatalogPathPool == {
    Notebooks, NotebookId, Notebooks \o <<"/", "1", "2", "3">>,
    ApiV1 \o <<"/", "m", "o", "n", "i", "t", "o", "r">>,
    LogsEventsSearch }

CatalogKeys ==
    {HTTP_METHODS[i] : i \in 1..Len(HTTP_METHODS)} \cup {<<"h", "e", "a", "d">>}

ItemPool == {
    [null |-> TRUE, ops |-> {}],
    [null |-> FALSE, ops |-> {}],
    [null |-> FALSE, ops |-> {<<"g", "e", "t">>}],
    [null |-> FALSE, ops |-> {<<"p", "o", "s", "t">>}],
    [null |-> FALSE, ops |-> {<<"p", "u", "t">>, <<"d", "e", "l", "e", "t", "e">>}],
    [null |-> FALSE, ops |-> {<<"h", "e", "a", "d">>, <<"p", "a", "t", "c", "h">>}],
    [null |-> FALSE, ops |-> CatalogKeys] }

\* The upstream descriptions of at most n paths
UpstreamSpecs(n) ==
    UNION { { s \in [1..k -> [path : CatalogPathPool, item : ItemPool]] :
                \A i, j \in 1..k : i # j => s[i].path # s[j].path }
            : k \in 0..n }

InitCatalog ==
    /\ upstream \in UpstreamSpecs(MaxPaths)
    /\ catalog = <<>>
    /\ IdlePolicy /\ IdleMatch /\ IdleSubst /\ IdleGateway /\ IdleTables
    /\ IdleStale
    /\ IdleTrunc
    /\ IdleUrl

RunProcessSpec ==
    /\ catalog = <<>>
    /\ catalog' = <<processSpec(upstream)>>
    /\ UNCHANGED upstream
    /\ UNCHANGED <<policyVars, matchVars, substVars, gatewayVars, tableVars,
                 staleVars, truncVars, urlVars>>

NextCatalog == RunProcessSpec

SpecCatalog == InitCatalog /\ [][NextCatalog]_vars

\* The upstream declares an operation under key m of path p
Declares(spec, p, m) ==
    \E i \in 1..Len(spec) :
        /\ spec[i].path = p
        /\ ~spec[i].item.null
        /\ m \in spec[i].item.ops

\* C10: the catalog processSpec emits holds a (path, method) operation
\* exactly when the upstream declares it under one of get/post/put/patch/
\* delete and isAllowedSpecEndpoint(method, path) is true; a denied pair is
\* left out entirely, and no path is kept with an empty methods object.
C10_CatalogFiltered ==
    catalog # <<>> =>
        LET paths == catalog[1].paths
        IN  /\ DOMAIN paths \subseteq CatalogPathPool
            /\ \A p \in DOMAIN paths :
                   paths[p] # {} /\ paths[p] \subseteq CatalogKeys
            /\ \A p \in CatalogPathPool, m \in CatalogKeys :
                   (p \in DOMAIN paths /\ m \in paths[p]) <=>
                       /\ Declares(upstream, p, m)
                       /\ \E i \in 1..Len(HTTP_METHODS) : HTTP_METHODS[i] = m
                       /\ isAllowedSpecEndpoint(m, p)

C10_Witness ==
    /\ Len(upstream) = 2
    /\ upstream[1] = [path |-> NotebookId,
                      item |-> [null |-> FALSE, ops |-> CatalogKeys]]
    /\ upstream[2].path = Notebooks \o <<"/", "1", "2", "3">>
    /\ upstream[2].item.ops = {<<"p", "u", "t">>, <<"d", "e", "l", "e", "t", "e">>}
    /\ catalog # <<>>
    /\ DOMAIN catalog[1].paths = {NotebookId}
    /\ catalog[1].paths[NotebookId] =
           {<<"g", "e", "t">>, <<"p", "u", "t">>, <<"d", "e", "l", "e", "t", "e">>}
    /\ catalog[1].endpointCount = 3
    /\ catalog[1].removedCount = 4

---------------------------------------------------------------------------
(* src/src/executor.ts: datadog.request                                    *)
(*                                                                         *)
(* The agent code may call datadog.request any number of times without     *)
(* awaiting, so several calls are in flight at once. A call runs from its   *)
(* entry to its first await (the fetch) in one step: the policy check, the *)
(* URL construction and the fetch call are synchronous. It then waits for  *)
(* the fetch to settle.                                                     *)

Calls == 1..NumCalls

GwMethods == {GET, POST, PUT, <<"d", "e", "l", "e", "t", "e">>}

GwPaths == {
    ApiV1 \o <<"/", "m", "o", "n", "i", "t", "o", "r">>,
    Notebooks \o <<"/", "9", "9">>,
    LogsEventsSearch }

\* response.ok with a JSON body, response.ok with another body, a response
\* that is not ok, and a fetch that rejects (network error, or the abort
\* after the 30 s timeout)
FetchOutcomes == {"json", "text", "notOk", "fetchRejects"}

IdleCall ==
    [pc |-> "idle", method |-> <<>>, path |-> <<>>, error |-> "none",
     message |-> <<>>]

\* The message of the error thrown on a denial, as the pieces of the template
\* literal
blockedMessage(m, p) ==
    <<"Blocked: ">> \o m \o <<" ">> \o p \o
    <<" is not in the write allowlist. Only GET/HEAD and specific notebook/dashboard operations are permitted.">>

\* The message of the error thrown for a response that is not ok
apiErrorMessage(status, errorBody) ==
    <<"Datadog API error ">> \o status \o <<": ">> \o errorBody

\* A rejected fetch carries the runtime's own message
FetchErrorMessage == <<"fetch failed">>

\* Mutant of request: the guard's negation left out
request_GuardInverted(c, m, p) ==
    IF isAllowedRuntimeRequest(m, p)
    THEN [call |-> [pc |-> "rejected", method |-> m, path |-> p,
                    error |-> "Blocked", message |-> blockedMessage(m, p)],
          fetches |-> {}]
    ELSE [call |-> [pc |-> "awaiting", method |-> m, path |-> p,
                    error |-> "none", message |-> <<>>],
          fetches |-> {[call |-> c, method |-> m, path |-> p]}]

\* Mutant of request: the decision is remembered per path, so a call on a
\* path another call has used takes that call's decision
request_Memoized(c, m, p) ==
    LET earlier == {d \in Calls : calls[d].pc # "idle" /\ calls[d].path = p}
        allowed ==
            IF earlier = {} THEN isAllowedRuntimeRequest(m, p)
            ELSE \E d \in earlier :
                     isAllowedRuntimeRequest(calls[d].method, p)
    IN  IF ~allowed
        THEN [call |-> [pc |-> "rejected", method |-> m, path |-> p,
                        error |-> "Blocked", message |-> blockedMessage(m, p)],
              fetches |-> {}]
        ELSE [call |-> [pc |-> "awaiting", method |-> m, path |-> p,
                        error |-> "none", message |-> <<>>],
              fetches |-> {[call |-> c, method |-> m, path |-> p]}]

\* datadog.request(options) up to its first await: the call's new state and
\* the fetches it issued. A fetch is recorded with the method and the path
\* the URL string is built from.
request(c, m, p) ==
    IF ~isAllowedRuntimeRequest(m, p)
    THEN [call |-> [pc |-> "rejected", method |-> m, path |-> p,
                    error |-> "Blocked", message |-> blockedMessage(m, p)],
          fetches |-> {}]
    ELSE [call |-> [pc |-> "awaiting", method |-> m, path |-> p,
                    error |-> "none", message |-> <<>>],
          fetches |-> {[call |-> c, method |-> m, path |-> p]}]

\* What the call becomes when its fetch settles
settle(call, outcome) ==
    IF outcome = "json" \/ outcome = "text"
    THEN [call EXCEPT !.pc = "resolved"]
    ELSE IF outcome = "notOk"
    THEN [call EXCEPT !.pc = "rejected", !.error = "Datadog API error",
                      !.message = apiErrorMessage(<<"5", "0", "0">>,
                                                  <<"Internal Server Error">>)]
    ELSE [call EXCEPT !.pc = "rejected", !.error = "fetch failed",
                      !.message = FetchErrorMessage]

---------------------------------------------------------------------------
(* src/src/server.ts: the execute tool's handler                           *)
(*                                                                         *)
(* The handler checks the credentials, awaits executeCode(code, config),   *)
(* which runs the agent code with the datadog object, and turns the        *)
(* settled promise into the tool's result. The agent code may catch a      *)
(* rejection of datadog.request or let it propagate, may throw a value of  *)
(* its own, and may return while calls are still in flight.                *)

\* process.env.DD_API_KEY and process.env.DD_APP_KEY: not set, set to the
\* empty string, or set to a key
KeyPool == {
    [defined |-> FALSE, chars |-> <<>>],
    [defined |-> TRUE, chars |-> <<>>],
    [defined |-> TRUE, chars |-> <<"k", "e", "y">>] }

\* !key
falsy(key) == ~key.defined \/ key.chars = <<>>

ConfigPool == [apiKey : KeyPool, appKey : KeyPool]

\* The handler before it is invoked, in a server created with config
IdleTool(config) ==
    [pc |-> "idle", isError |-> FALSE, text |-> <<>>, uncaught |-> 0,
     config |-> config]

\* formatError(error): the string, or throws when error is not an Error and
\* String(error) finds nothing to convert it with
formatError(error) ==
    IF error.instanceOfError THEN [throws |-> FALSE, text |-> error.message]
    ELSE IF error.convertible THEN [throws |-> FALSE, text |-> error.string]
    ELSE [throws |-> TRUE, text |-> <<>>]

MissingCredentials ==
    [threw |-> FALSE, isError |-> TRUE,
     text |-> <<"Error: DD_API_KEY and DD_APP_KEY environment variables are required for API execution.">>]

\* Mutant of executeHandler: the catch block returns an empty result
executeHandler_Swallowed(settled) ==
    IF settled.status = "fulfilled"
    THEN [threw |-> FALSE, isError |-> FALSE, text |-> settled.value]
    ELSE [threw |-> FALSE, isError |-> FALSE, text |-> <<>>]

\* The try/catch around await executeCode(...): the tool's result for the
\* settled promise, or an exception leaving the catch block. The results
\* returned here are short, and truncateResponse returns a short string as
\* it is.
executeHandler(settled) ==
    IF settled.status = "fulfilled"
    THEN [threw |-> FALSE, isError |-> FALSE, text |-> settled.value]
    ELSE IF formatError(settled.reason).throws
    THEN [threw |-> TRUE, isError |-> FALSE, text |-> <<>>]
    ELSE [threw |-> FALSE, isError |-> TRUE,
          text |-> <<"Error: ">> \o formatError(settled.reason).text]

\* The rejection of call c, an Error object with the call's message
rejectionOf(call) ==
    [status |-> "rejected",
     reason |-> [instanceOfError |-> TRUE, convertible |-> TRUE,
                 message |-> call.message, string |-> <<>>]]

\* Values the agent code throws itself: a string, and an object without
\* toString and valueOf, as Object.create(null) is
ThrownValues == {
    [instanceOfError |-> FALSE, convertible |-> TRUE, message |-> <<>>,
     string |-> <<"agent code gave up">>],
    [instanceOfError |-> FALSE, convertible |-> FALSE, message |-> <<>>,
     string |-> <<>>] }

AgentThrown(thrown) == [status |-> "rejected", reason |-> thrown]

AgentReturned == [status |-> "fulfilled", value |-> <<"done">>]

\* The handler's promise settles: fulfilled with the result, or rejected
finished(result, c) ==
    [tool EXCEPT !.pc = IF result.threw THEN "threw" ELSE "done",
                 !.isError = result.isError,
                 !.text = result.text,
                 !.uncaught = c]

InitGateway ==
    /\ calls = [c \in Calls |-> IdleCall]
    /\ fetchLog = {}
    /\ \E config \in ConfigPool : tool = IdleTool(config)
    /\ IdlePolicy /\ IdleMatch /\ IdleSubst /\ IdleCatalog /\ IdleTables
    /\ IdleStale
    /\ IdleTrunc
    /\ IdleUrl

\* The handler is invoked; without both keys it returns at once
ExecuteInvoke ==
    /\ tool.pc = "idle"
    /\ tool' = IF falsy(tool.config.apiKey) \/ falsy(tool.config.appKey)
               THEN finished(MissingCredentials, 0)
               ELSE [tool EXCEPT !.pc = "running"]
    /\ UNCHANGED <<calls, fetchLog>>
    /\ UNCHANGED <<policyVars, matchVars, substVars, catalogVars, tableVars,
                 staleVars, truncVars, urlVars>>

Request(c) ==
    /\ tool.pc = "running"
    /\ calls[c].pc = "idle"
    /\ \E m \in GwMethods, p \in GwPaths :
           /\ calls' = [calls EXCEPT ![c] = request(c, m, p).call]
           /\ fetchLog' = fetchLog \cup request(c, m, p).fetches
    /\ UNCHANGED tool
    /\ UNCHANGED <<policyVars, matchVars, substVars, catalogVars, tableVars,
                 staleVars, truncVars, urlVars>>

FetchSettles(c) ==
    /\ calls[c].pc = "awaiting"
    /\ \E outcome \in FetchOutcomes :
           calls' = [calls EXCEPT ![c] = settle(calls[c], outcome)]
    /\ UNCHANGED <<fetchLog, tool>>
    /\ UNCHANGED <<policyVars, matchVars, substVars, catalogVars, tableVars,
                 staleVars, truncVars, urlVars>>

\* The agent code returns a value
AgentReturns ==
    /\ tool.pc = "running"
    /\ tool' = finished(executeHandler(AgentReturned), 0)
    /\ UNCHANGED <<calls, fetchLog>>
    /\ UNCHANGED <<policyVars, matchVars, substVars, catalogVars, tableVars,
                 staleVars, truncVars, urlVars>>

\* The agent code awaited call c and did not catch its rejection
AgentPropagates(c) ==
    /\ tool.pc = "running"
    /\ calls[c].pc = "rejected"
    /\ tool' = finished(executeHandler(rejectionOf(calls[c])), c)
    /\ UNCHANGED <<calls, fetchLog>>
    /\ UNCHANGED <<policyVars, matchVars, substVars, catalogVars, tableVars,
                 staleVars, truncVars, urlVars>>

\* The agent code throws a value of its own
AgentThrows ==
    /\ tool.pc = "running"
    /\ \E thrown \in ThrownValues :
           tool' = finished(executeHandler(AgentThrown(thrown)), 0)
    /\ UNCHANGED <<calls, fetchLog>>
    /\ UNCHANGED <<policyVars, matchVars, substVars, catalogVars, tableVars,
                 staleVars, truncVars, urlVars>>

NextGateway ==
    \/ ExecuteInvoke
    \/ \E c \in Calls : Request(c)
    \/ \E c \in Calls : FetchSettles(c)
    \/ AgentReturns
    \/ \E c \in Calls : AgentPropagates(c)
    \/ AgentThrows

SpecGateway == InitGateway /\ [][NextGateway]_vars

\* C3: in every execution of datadog.request(options), when
\* isAllowedRuntimeRequest(options.method, options.path) is false the call
\* rejects with the Blocked error and no fetch is ever issued for it.
C3_DeniedNeverFetched ==
    \A c \in Calls :
        ( /\ calls[c].pc # "idle"
          /\ ~isAllowedRuntimeRequest(calls[c].method, calls[c].path) ) =>
            /\ calls[c].pc = "rejected"
            /\ calls[c].error = "Blocked"
            /\ \A f \in fetchLog : f.call # c

C3_Witness ==
    \E c, d \in Calls :
        /\ calls[c].method = <<"d", "e", "l", "e", "t", "e">>
        /\ calls[c].path = ApiV1 \o <<"/", "m", "o", "n", "i", "t", "o", "r">>
        /\ calls[c].pc = "rejected"
        /\ calls[c].error = "Blocked"
        /\ calls[d].pc = "resolved"
        /\ fetchLog = {[call |-> d, method |-> calls[d].method,
                        path |-> calls[d].path]}


\* C14: a denied call rejects with the message 'Blocked: <method> <path> is
\* not in the write allowlist. ...', which names the method and the path and
\* differs from the message of a Datadog API error and of a failed fetch; no
\* fetch is issued for the call afterwards; and when the agent code lets the
\* rejection propagate, the execute tool returns an isError result whose
\* text is 'Error: ' followed by that message.
C14_DenialReported ==
    \A c \in Calls :
        /\ ( /\ calls[c].pc # "idle"
             /\ ~isAllowedRuntimeRequest(calls[c].method, calls[c].path) ) =>
               /\ calls[c].pc = "rejected"
               /\ calls[c].message =
                      <<"Blocked: ">> \o calls[c].method \o <<" ">> \o
                      calls[c].path \o
                      <<" is not in the write allowlist. Only GET/HEAD and specific notebook/dashboard operations are permitted.">>
               /\ \A f \in fetchLog : f.call # c
               /\ (tool.pc = "done" /\ tool.uncaught = c) =>
                      /\ tool.isError
                      /\ tool.text = <<"Error: ">> \o calls[c].message
        /\ ( /\ calls[c].pc = "rejected"
             /\ isAllowedRuntimeRequest(calls[c].method, calls[c].path) ) =>
               /\ calls[c].message[1] \in {"Datadog API error ", "fetch failed"}
               /\ calls[c].message[1] # "Blocked: "

C14_Witness ==
    \E c, d \in Calls :
        /\ calls[c].method = PUT
        /\ calls[c].path = LogsEventsSearch
        /\ calls[c].message[1] = "Blocked: "
        /\ calls[d].error = "Datadog API error"
        /\ tool.pc = "done"
        /\ tool.uncaught = c
        /\ tool.isError
        /\ tool.text[1] = "Error: "
        /\ tool.text[2] = "Blocked: "
        /\ \A f \in fetchLog : f.call = d

\* C16: with several datadog.request calls in flight, interleaving at their
\* awaits, each call is decided by isAllowedRuntimeRequest on its own method
\* and path: it is blocked exactly when that is false, a fetch is issued for
\* it exactly when that is true, and the fetch carries the call's own method
\* and path, whatever the other calls are and whatever state they are in.
C16_ConcurrentGating ==
    \A c \in Calls :
        calls[c].pc # "idle" =>
            LET allowed == isAllowedRuntimeRequest(calls[c].method, calls[c].path)
                fetched == {f \in fetchLog : f.call = c}
            IN  /\ (calls[c].error = "Blocked") <=> ~allowed
                /\ fetched = IF allowed
                             THEN {[call |-> c, method |-> calls[c].method,
                                    path |-> calls[c].path]}
                             ELSE {}

C16_Witness ==
    \E c, d \in Calls :
        /\ c # d
        /\ calls[d].pc = "awaiting"
        /\ calls[d].method = GET
        /\ toUpperCase(calls[c].method) = DELETE
        /\ calls[c].path = calls[d].path
        /\ calls[c].error = "Blocked"
        /\ fetchLog = {[call |-> d, method |-> GET, path |-> calls[d].path]}

\* C23: when apiKey or appKey is missing or empty, the execute handler
\* returns an isError result naming DD_API_KEY and DD_APP_KEY, and no agent
\* code runs, no request is evaluated and no fetch is issued; and in every
\* case the handler returns a result and never throws.
C23_NoCredentialsNoThrow ==
    /\ ( /\ falsy(tool.config.apiKey) \/ falsy(tool.config.appKey)
         /\ tool.pc # "idle" ) =>
           /\ tool.pc = "done"
           /\ tool.isError
           /\ tool.text = <<"Error: DD_API_KEY and DD_APP_KEY environment variables are required for API execution.">>
           /\ \A c \in Calls : calls[c] = IdleCall
           /\ fetchLog = {}
    /\ tool.pc # "threw"

---------------------------------------------------------------------------
(* src/src/allowlist.ts: the module's tables as state                      *)
(*                                                                         *)
(* WRITE_ALLOWLIST, SAFE_POST_SUFFIXES and READ_METHODS are objects the     *)
(* module creates once; `as const` and `readonly` are compile-time only.   *)
(* Here the three are a value of the state, the policy functions read them *)
(* from it, and a call returns its result together with the tables it      *)
(* leaves behind.                                                          *)

ModuleTables ==
    [WRITE_ALLOWLIST |-> WRITE_ALLOWLIST,
     SAFE_POST_SUFFIXES |-> SAFE_POST_SUFFIXES,
     READ_METHODS |-> READ_METHODS]

isSafePostOn(t, m, p) ==
    /\ m = POST
    /\ \E i \in 1..Len(t.SAFE_POST_SUFFIXES) :
           endsWith(p, t.SAFE_POST_SUFFIXES[i])

isAllowedSpecEndpointOn(t, m, p) ==
    LET upper == toUpperCase(m)
        listed(e) == e.method = upper /\ e.path = p
    IN  IF upper \in t.READ_METHODS THEN TRUE
        ELSE IF isSafePostOn(t, upper, p) THEN TRUE
        ELSE \E i \in 1..Len(t.WRITE_ALLOWLIST) : listed(t.WRITE_ALLOWLIST[i])

\* Mutant of isAllowedRuntimeRequestOn: the first entry with the method
\* decides, so the order of the entries matters
isAllowedRuntimeRequestOn_FirstOfMethod(t, m, p) ==
    LET upper == toUpperCase(m)
        sameMethod == {i \in 1..Len(t.WRITE_ALLOWLIST) :
                          t.WRITE_ALLOWLIST[i].method = upper}
        first == CHOOSE i \in sameMethod : \A j \in sameMethod : i <= j
    IN  IF upper \in t.READ_METHODS THEN TRUE
        ELSE IF isSafePostOn(t, upper, p) THEN TRUE
        ELSE IF sameMethod = {} THEN FALSE
        ELSE matchPathPattern(t.WRITE_ALLOWLIST[first].path, p)

isAllowedRuntimeRequestOn(t, m, p) ==
    LET upper == toUpperCase(m)
        listed(e) == e.method = upper /\ matchPathPattern(e.path, p)
    IN  IF upper \in t.READ_METHODS THEN TRUE
        ELSE IF isSafePostOn(t, upper, p) THEN TRUE
        ELSE \E i \in 1..Len(t.WRITE_ALLOWLIST) : listed(t.WRITE_ALLOWLIST[i])

PolicyFunctions == {"isAllowedSpecEndpoint", "isAllowedRuntimeRequest"}

\* Mutant of policyCall: an allowlist entry that matched is taken out of
\* the table
policyCall_Consuming(t, fn, m, p) ==
    LET upper == toUpperCase(m)
        result == IF fn = "isAllowedSpecEndpoint"
                  THEN isAllowedSpecEndpointOn(t, m, p)
                  ELSE isAllowedRuntimeRequestOn(t, m, p)
        kept(e) == ~(e.method = upper /\ matchPathPattern(e.path, p))
    IN  [result |-> result,
         tables |-> [t EXCEPT !.WRITE_ALLOWLIST = SelectSeq(@, kept)]]

\* One call of a policy function: has, some, endsWith, split and
\* toUpperCase read the tables and write nothing
policyCall(t, fn, m, p) ==
    [result |-> IF fn = "isAllowedSpecEndpoint"
                THEN isAllowedSpecEndpointOn(t, m, p)
                ELSE isAllowedRuntimeRequestOn(t, m, p),
     tables |-> t]

SeqMethods == {POST, PUT, <<"d", "e", "l", "e", "t", "e">>}

SeqPaths == {Notebooks, Notebooks \o <<"/", "9", "9">>, LogsEventsSearch}

InitSeq ==
    /\ tables = ModuleTables
    /\ history = <<>>
    /\ edit = "none"
    /\ IdlePolicy /\ IdleMatch /\ IdleSubst /\ IdleCatalog /\ IdleGateway
    /\ IdleStale
    /\ IdleTrunc
    /\ IdleUrl

PolicyCall ==
    /\ Len(history) < MaxHistory
    /\ \E fn \in PolicyFunctions, m \in SeqMethods, p \in SeqPaths :
           LET r == policyCall(tables, fn, m, p)
           IN  /\ tables' = r.tables
               /\ history' = Append(history,
                       [fn |-> fn, method |-> m, path |-> p,
                        result |-> r.result])
    /\ UNCHANGED edit
    /\ UNCHANGED <<policyVars, matchVars, substVars, catalogVars, gatewayVars,
                 staleVars, truncVars, urlVars>>

NextSeq == PolicyCall

SpecSeq == InitSeq /\ [][NextSeq]_vars

\* C15: across a sequence of calls of isAllowedSpecEndpoint and
\* isAllowedRuntimeRequest the three tables stay as the module created
\* them, and a (function, method, path) that is decided more than once is
\* decided the same way each time, namely as the function decides it on the
\* tables as created.
C15_Stateless ==
    /\ tables = ModuleTables
    /\ \A i, j \in 1..Len(history) :
           ( /\ history[i].fn = history[j].fn
             /\ history[i].method = history[j].method
             /\ history[i].path = history[j].path ) =>
               history[i].result = history[j].result
    /\ \A i \in 1..Len(history) :
           history[i].result =
               IF history[i].fn = "isAllowedSpecEndpoint"
               THEN isAllowedSpecEndpoint(history[i].method, history[i].path)
               ELSE isAllowedRuntimeRequest(history[i].method, history[i].path)

C15_Witness ==
    /\ Len(history) = 3
    /\ history[1] = [fn |-> "isAllowedRuntimeRequest", method |-> PUT,
                     path |-> Notebooks \o <<"/", "9", "9">>, result |-> TRUE]
    /\ history[2].fn = "isAllowedSpecEndpoint"
    /\ history[2].result = FALSE
    /\ history[3] = history[1]
    /\ tables = ModuleTables

---------------------------------------------------------------------------
(* The policy functions over a rewritten WRITE_ALLOWLIST                    *)
(*                                                                         *)
(* The table is rewritten once, before any call: its entries put in        *)
(* another order, one entry written twice, or one entry added that an      *)
(* existing entry with the same method already matches as a pattern.       *)

insertAt(list, k, e) ==
    [i \in 1..(Len(list) + 1) |->
        IF i <= k THEN list[i] ELSE IF i = k + 1 THEN e ELSE list[i - 1]]

swapped(list, a, b) ==
    [i \in 1..Len(list) |->
        IF i = a THEN list[b] ELSE IF i = b THEN list[a] ELSE list[i]]

reversed(list) == [i \in 1..Len(list) |-> list[Len(list) + 1 - i]]

Reorderings(list) ==
    {reversed(list)} \cup
    {swapped(list, a, b) : a \in 1..Len(list), b \in 1..Len(list)}

\* Paths an entry may be added with
AddedPaths == {
    Notebooks \o <<"/", "9", "9">>,
    Notebooks \o <<"/", "{", "i", "d", "}">>,
    Dashboard \o <<"/", "9", "9">> }

\* Entries not in the list that an entry of the list matches: same method,
\* and the entry's path taken as a pattern matches the new path
SubsumedEntries(list) ==
    {e \in [method : {list[i].method : i \in 1..Len(list)}, path : AddedPaths] :
        /\ \A i \in 1..Len(list) : list[i] # e
        /\ \E i \in 1..Len(list) :
               /\ list[i].method = e.method
               /\ matchPathPattern(list[i].path, e.path)}

\* The rewritten tables, each with what was done to the allowlist
Edits(t) ==
    LET list == t.WRITE_ALLOWLIST
        with(l) == [t EXCEPT !.WRITE_ALLOWLIST = l]
    IN  {[tables |-> with(l), edit |-> [kind |-> "reordered", entry |-> <<>>]] :
            l \in Reorderings(list) \ {list}}
        \cup
        {[tables |-> with(insertAt(list, k, list[i])),
          edit |-> [kind |-> "duplicated", entry |-> list[i]]] :
            i \in 1..Len(list), k \in {0, Len(list)}}
        \cup
        {[tables |-> with(insertAt(list, k, e)),
          edit |-> [kind |-> "subsumed", entry |-> e]] :
            e \in SubsumedEntries(list), k \in {0, Len(list)}}

SetMethods == {GET, POST, PUT, <<"p", "u", "t">>, DELETE, PATCH}

SetPaths ==
    AddedPaths \cup
    {Notebooks, NotebookId, Dashboard, DashboardId, LogsEventsSearch,
     ApiV1 \o <<"/", "m", "o", "n", "i", "t", "o", "r">>}

InitSet ==
    /\ \E x \in Edits(ModuleTables) : tables = x.tables /\ edit = x.edit
    /\ history = <<>>
    /\ method \in SetMethods
    /\ path \in SetPaths
    /\ specResult = <<>>
    /\ runtimeResult = <<>>
    /\ IdleMatch /\ IdleSubst /\ IdleCatalog /\ IdleGateway
    /\ IdleStale
    /\ IdleTrunc
    /\ IdleUrl

CallSpecEndpointOn ==
    /\ specResult = <<>>
    /\ specResult' = <<policyCall(tables, "isAllowedSpecEndpoint", method, path).result>>
    /\ tables' = policyCall(tables, "isAllowedSpecEndpoint", method, path).tables
    /\ UNCHANGED <<method, path, runtimeResult, history, edit>>
    /\ UNCHANGED <<matchVars, substVars, catalogVars, gatewayVars, staleVars, truncVars,
                 urlVars>>

CallRuntimeRequestOn ==
    /\ runtimeResult = <<>>
    /\ runtimeResult' = <<policyCall(tables, "isAllowedRuntimeRequest", method, path).result>>
    /\ tables' = policyCall(tables, "isAllowedRuntimeRequest", method, path).tables
    /\ UNCHANGED <<method, path, specResult, history, edit>>
    /\ UNCHANGED <<matchVars, substVars, catalogVars, gatewayVars, staleVars, truncVars,
                 urlVars>>

NextSet ==
    \/ CallSpecEndpointOn
    \/ CallRuntimeRequestOn

SpecSet == InitSet /\ [][NextSet]_vars

\* C17 as stated: with the allowlist reordered, with an entry duplicated, or
\* with an entry added that an existing entry subsumes, every decision of
\* isAllowedSpecEndpoint and of isAllowedRuntimeRequest is what it is with
\* the allowlist as written.
C17_AsSet ==
    /\ specResult # <<>> =>
           specResult = <<isAllowedSpecEndpoint(method, path)>>
    /\ runtimeResult # <<>> =>
           runtimeResult = <<isAllowedRuntimeRequest(method, path)>>

\* C17 amended: reordering the entries or duplicating one leaves every
\* decision of both functions unchanged; adding an entry that an existing
\* entry with the same method matches as a pattern leaves every decision of
\* isAllowedRuntimeRequest unchanged, and changes isAllowedSpecEndpoint for
\* the added entry's own method and path only, which it allows.
C17_AsSetAtRuntime ==
    LET added == /\ edit.kind = "subsumed"
                 /\ edit.entry = [method |-> toUpperCase(method), path |-> path]
    IN  /\ runtimeResult # <<>> =>
               runtimeResult = <<isAllowedRuntimeRequest(method, path)>>
        /\ (specResult # <<>> /\ ~added) =>
               specResult = <<isAllowedSpecEndpoint(method, path)>>
        /\ (specResult # <<>> /\ added) => specResult = <<TRUE>>

C17_Witness ==
    /\ edit = [kind |-> "subsumed",
               entry |-> [method |-> PUT, path |-> Notebooks \o <<"/", "9", "9">>]]
    /\ tables.WRITE_ALLOWLIST[1] = edit.entry
    /\ method = <<"p", "u", "t">>
    /\ path = Notebooks \o <<"/", "9", "9">>
    /\ runtimeResult = <<TRUE>>
    /\ specResult = <<TRUE>>
    /\ ~isAllowedSpecEndpoint(method, path)

---------------------------------------------------------------------------
(* ensure-spec.ts: checkStaleness and ensureSpec                           *)
(*                                                                         *)
(* ensureSpec runs through its awaits one at a time: the manifest is read, *)
(* spec.json is looked for, allowlist.ts is hashed, the two HEAD requests  *)
(* are issued together and settle in either order, the lengths are         *)
(* compared, and the spec is rebuilt when a reason was found. The manifest *)
(* on disk is one that buildSpec wrote.                                    *)

Null == <<>>

Versions == {"v1", "v2"}

HashPool == {"sha-a", "sha-b"}

\* Content-Length header values, as the strings a server sends
HeaderPool == {<<"1", "0", "0">>, <<"2", "5", "0">>}

DIGITS == <<"0", "1", "2", "3", "4", "5", "6", "7", "8", "9">>

digitValue(ch) == (CHOOSE i \in 1..Len(DIGITS) : DIGITS[i] = ch) - 1

\* Number(header) for a string of decimal digits
RECURSIVE Number(_)
Number(header) ==
    IF header = <<>> THEN 0
    ELSE Number(SubSeq(header, 1, Len(header) - 1)) * Len(DIGITS)
             + digitValue(header[Len(header)])

LengthPool == {Number(h) : h \in HeaderPool}

\* The manifests buildSpec writes
ManifestPool ==
    [allowlistHash : HashPool,
     v1ContentLength : LengthPool,
     v2ContentLength : LengthPool]

\* A HEAD request rejects (network error), is aborted by the 5 s timeout,
\* or gets a response: not ok, ok without Content-Length, ok with it
HeadOutcomes == {"networkError", "timeout", "notOk", "noHeader", "ok"}

\* Mutant of fetchContentLength: a failure is reported as length 0
fetchContentLength_ZeroOnFailure(outcome, header) ==
    IF outcome \in {"networkError", "timeout"} THEN <<0>>
    ELSE IF outcome = "notOk" THEN <<0>>
    ELSE IF outcome = "noHeader" THEN <<0>>
    ELSE <<Number(header)>>

\* fetchContentLength(url): Null, or <<n>> for the number n
fetchContentLength(outcome, header) ==
    IF outcome \in {"networkError", "timeout"} THEN Null
    ELSE IF outcome = "notOk" THEN Null
    ELSE IF outcome = "noHeader" THEN Null
    ELSE <<Number(header)>>

\* Mutant of compareLengths: v2 is looked at before v1
compareLengths_V2First(manifest, v1Length, v2Length) ==
    IF v2Length # Null /\ v2Length # <<manifest.v2ContentLength>>
    THEN <<"upstream v2 spec changed">>
    ELSE IF v1Length # Null /\ v1Length # <<manifest.v1ContentLength>>
    THEN <<"upstream v1 spec changed">>
    ELSE Null

\* The end of checkStaleness, once Promise.all has resolved: Null, or <<r>>
\* for the reason r
compareLengths(manifest, v1Length, v2Length) ==
    IF v1Length # Null /\ v1Length # <<manifest.v1ContentLength>>
    THEN <<"upstream v1 spec changed">>
    ELSE IF v2Length # Null /\ v2Length # <<manifest.v2ContentLength>>
    THEN <<"upstream v2 spec changed">>
    ELSE Null

IdleEnsure ==
    [pc |-> "readManifest", manifest |-> Null, reason |-> Null,
     built |-> FALSE]

InitStale ==
    /\ disk \in [manifest : {Null} \cup {<<m>> : m \in ManifestPool},
                  spec : BOOLEAN,
                  allowlistHash : HashPool]
    /\ remote \in [Versions -> HeaderPool]
    /\ heads = [v \in Versions |-> Null]
    /\ stale = IdleEnsure
    /\ IdlePolicy /\ IdleMatch /\ IdleSubst /\ IdleCatalog /\ IdleGateway
    /\ IdleTables
    /\ IdleTrunc
    /\ IdleUrl

decided(reason) == [stale EXCEPT !.pc = "decided", !.reason = reason]

\* const manifest = await readManifest(); if (!manifest) return ...
ReadManifest ==
    /\ stale.pc = "readManifest"
    /\ stale' = IF disk.manifest = Null
                THEN decided(<<"no build manifest found">>)
                ELSE [stale EXCEPT !.pc = "specExists",
                                   !.manifest = disk.manifest[1]]
    /\ UNCHANGED <<disk, remote, heads>>
    /\ UNCHANGED <<policyVars, matchVars, substVars, catalogVars, gatewayVars,
                   tableVars, truncVars, urlVars>>

\* if (!(await specExists())) return ...
SpecExists ==
    /\ stale.pc = "specExists"
    /\ stale' = IF ~disk.spec THEN decided(<<"spec.json missing">>)
                ELSE [stale EXCEPT !.pc = "hashFile"]
    /\ UNCHANGED <<disk, remote, heads>>
    /\ UNCHANGED <<policyVars, matchVars, substVars, catalogVars, gatewayVars,
                   tableVars, truncVars, urlVars>>

\* const currentHash = await hashFile(ALLOWLIST_PATH); the comparison; and
\* the two fetchContentLength calls up to their awaits
HashFile ==
    /\ stale.pc = "hashFile"
    /\ stale' = IF disk.allowlistHash # stale.manifest.allowlistHash
                THEN decided(<<"allowlist.ts changed">>)
                ELSE [stale EXCEPT !.pc = "heads"]
    /\ UNCHANGED <<disk, remote, heads>>
    /\ UNCHANGED <<policyVars, matchVars, substVars, catalogVars, gatewayVars,
                   tableVars, truncVars, urlVars>>

\* One of the two HEAD requests settles
HeadSettles(v) ==
    /\ stale.pc = "heads"
    /\ heads[v] = Null
    /\ \E outcome \in HeadOutcomes :
           heads' = [heads EXCEPT ![v] =
                        <<[outcome |-> outcome,
                           length |-> fetchContentLength(outcome, remote[v])]>>]
    /\ UNCHANGED <<disk, remote, stale>>
    /\ UNCHANGED <<policyVars, matchVars, substVars, catalogVars, gatewayVars,
                   tableVars, truncVars, urlVars>>

\* Promise.all resolves and checkStaleness returns
CompareLengths ==
    /\ stale.pc = "heads"
    /\ \A v \in Versions : heads[v] # Null
    /\ stale' = decided(compareLengths(stale.manifest,
                                       heads["v1"][1].length,
                                       heads["v2"][1].length))
    /\ UNCHANGED <<disk, remote, heads>>
    /\ UNCHANGED <<policyVars, matchVars, substVars, catalogVars, gatewayVars,
                   tableVars, truncVars, urlVars>>

\* ensureSpec after await checkStaleness(): return, or await buildSpec(),
\* which writes spec.json and a manifest with the current hash and the
\* lengths it fetched with, or fails and writes nothing
EnsureSpec ==
    /\ stale.pc = "decided"
    /\ IF stale.reason = Null
       THEN /\ stale' = [stale EXCEPT !.pc = "done"]
            /\ UNCHANGED disk
       ELSE /\ stale' = [stale EXCEPT !.pc = "done", !.built = TRUE]
            /\ \/ UNCHANGED disk
               \/ disk' = [manifest |->
                               <<[allowlistHash |-> disk.allowlistHash,
                                  v1ContentLength |-> Number(remote["v1"]),
                                  v2ContentLength |-> Number(remote["v2"])]>>,
                           spec |-> TRUE,
                           allowlistHash |-> disk.allowlistHash]
    /\ UNCHANGED <<remote, heads>>
    /\ UNCHANGED <<policyVars, matchVars, substVars, catalogVars, gatewayVars,
                   tableVars, truncVars, urlVars>>

NextStale ==
    \/ ReadManifest
    \/ SpecExists
    \/ HashFile
    \/ \E v \in Versions : HeadSettles(v)
    \/ CompareLengths
    \/ EnsureSpec

SpecStale == InitStale /\ [][NextStale]_vars

\* The HEAD request for v got an ok response with a Content-Length that is
\* not the one in the manifest
ConfirmedMismatch(v, recorded) ==
    /\ heads[v] # Null
    /\ heads[v][1].outcome = "ok"
    /\ Number(remote[v]) # recorded

\* The HEAD request for v failed: rejected, timed out, not ok, or no header
HeadFailed(v) ==
    /\ heads[v] # Null
    /\ heads[v][1].outcome \in {"networkError", "timeout", "notOk", "noHeader"}

\* C18: checkStaleness returns the first of: 'no build manifest found' when
\* the manifest is absent, 'spec.json missing' when spec.json is absent,
\* 'allowlist.ts changed' when the hash of allowlist.ts differs from the
\* manifest's, 'upstream v1 spec changed' on a confirmed v1 mismatch,
\* 'upstream v2 spec changed' on a confirmed v2 mismatch, and null
\* otherwise; ensureSpec calls buildSpec exactly when the result is not null.
C18_Priority ==
    /\ stale.pc = "decided" =>
           stale.reason =
               IF disk.manifest = Null THEN <<"no build manifest found">>
               ELSE IF ~disk.spec THEN <<"spec.json missing">>
               ELSE IF disk.allowlistHash # disk.manifest[1].allowlistHash
               THEN <<"allowlist.ts changed">>
               ELSE IF ConfirmedMismatch("v1", disk.manifest[1].v1ContentLength)
               THEN <<"upstream v1 spec changed">>
               ELSE IF ConfirmedMismatch("v2", disk.manifest[1].v2ContentLength)
               THEN <<"upstream v2 spec changed">>
               ELSE Null
    /\ stale.pc = "done" => (stale.built <=> stale.reason # Null)
    /\ stale.pc \notin {"done"} => ~stale.built

C18_Witness ==
    /\ stale.pc = "done"
    /\ stale.built
    /\ stale.reason = <<"upstream v1 spec changed">>
    /\ ConfirmedMismatch("v1", stale.manifest.v1ContentLength)
    /\ ConfirmedMismatch("v2", stale.manifest.v2ContentLength)

\* C19: with the manifest present, spec.json present and the hash matching,
\* a HEAD request that rejects, times out, is answered not ok or without
\* Content-Length never gives a reason for its version; when both fail the
\* result is null and nothing is rebuilt, even when the recorded lengths
\* are not the upstream ones; and a change is reported only for a version
\* whose length was obtained and differs from the recorded one.
C19_NetworkNonFatal ==
    stale.pc \in {"decided", "done"} =>
        /\ HeadFailed("v1") => stale.reason # <<"upstream v1 spec changed">>
        /\ HeadFailed("v2") => stale.reason # <<"upstream v2 spec changed">>
        /\ (HeadFailed("v1") /\ HeadFailed("v2")) =>
               stale.reason = Null /\ ~stale.built
        /\ stale.reason = <<"upstream v1 spec changed">> =>
               ConfirmedMismatch("v1", stale.manifest.v1ContentLength)
        /\ stale.reason = <<"upstream v2 spec changed">> =>
               ConfirmedMismatch("v2", stale.manifest.v2ContentLength)

C19_Witness ==
    /\ stale.pc = "done"
    /\ heads["v1"] # Null /\ heads["v1"][1].outcome = "timeout"
    /\ heads["v2"] # Null /\ heads["v2"][1].outcome = "notOk"
    /\ Number(remote["v1"]) # stale.manifest.v1ContentLength
    /\ Number(remote["v2"]) # stale.manifest.v2ContentLength
    /\ stale.reason = Null
    /\ ~stale.built

---------------------------------------------------------------------------
(* truncate.ts: truncateResponse                                            *)
(*                                                                         *)
(* A rendered response is long, so a text is kept as its runs: a sequence  *)
(* of [ch, n] for n > 0 copies of the character ch, neighbouring runs with *)
(* different characters ("a".repeat(24000) + "b" is two runs). length and   *)
(* slice are computed on the runs.                                         *)

\* Mutant of MAX_CHARS: the limit one character short
MAX_CHARS_OneShort == 24000 - 1

MAX_CHARS == 24000
MAX_TOKENS == 6000
CHARS_PER_TOKEN == 4

RECURSIVE length(_)
length(text) ==
    IF text = <<>> THEN 0 ELSE Head(text).n + length(Tail(text))

\* text.slice(0, k)
RECURSIVE slice(_, _)
slice(text, k) ==
    IF text = <<>> \/ k <= 0 THEN <<>>
    ELSE IF Head(text).n <= k
    THEN <<Head(text)>> \o slice(Tail(text), k - Head(text).n)
    ELSE <<[ch |-> Head(text).ch, n |-> k]>>

\* The decimal digits of n
RECURSIVE toDigits(_)
toDigits(n) ==
    IF n < Len(DIGITS) THEN <<DIGITS[n + 1]>>
    ELSE toDigits(n \div Len(DIGITS)) \o <<DIGITS[(n % Len(DIGITS)) + 1]>>

\* A comma before every group of three digits but the first
RECURSIVE grouped(_)
grouped(digits) ==
    IF Len(digits) <= 3 THEN digits
    ELSE grouped(SubSeq(digits, 1, Len(digits) - 3)) \o <<",">> \o
         SubSeq(digits, Len(digits) - 2, Len(digits))

\* n.toLocaleString()
toLocaleString(n) == grouped(toDigits(n))

\* The estimates of the token count: length / 4, rounded down or up
TokenEstimates(len) ==
    {len \div CHARS_PER_TOKEN,
     (len + CHARS_PER_TOKEN - 1) \div CHARS_PER_TOKEN}

\* truncateResponse(text) for a rendered text: the characters returned and
\* the pieces of the notice put after them, <<>> when there is none
truncateResponse(text, estimate) ==
    IF length(text) <= MAX_CHARS
    THEN [kept |-> text, notice |-> <<>>]
    ELSE [kept |-> slice(text, MAX_CHARS),
          notice |-> <<"--- TRUNCATED ---", "tokens: ",
                       toLocaleString(estimate), "limit: ",
                       toLocaleString(MAX_TOKENS)>>]

\* Lengths of the first run: short, around the limit, and the tests' long ones
FirstRunLengths ==
    {1, 5, MAX_CHARS - 3, MAX_CHARS - 2, MAX_CHARS - 1, MAX_CHARS,
     MAX_CHARS + 1, MAX_CHARS + 2, 30000, 40000}

RenderedTexts ==
    {<<>>}
    \cup {<<[ch |-> c, n |-> a]>> : c \in {"a", "x"}, a \in FirstRunLengths}
    \cup {<<[ch |-> c, n |-> a], [ch |-> "b", n |-> b]>> :
              c \in {"a", "x"}, a \in FirstRunLengths, b \in 1..MaxSecondRun}

InitTrunc ==
    /\ rendered \in RenderedTexts
    /\ truncated = <<>>
    /\ IdlePolicy /\ IdleMatch /\ IdleSubst /\ IdleCatalog /\ IdleGateway
    /\ IdleTables /\ IdleStale
    /\ IdleUrl

CallTruncateResponse ==
    /\ truncated = <<>>
    /\ \E estimate \in TokenEstimates(length(rendered)) :
           truncated' = <<truncateResponse(rendered, estimate)>>
    /\ UNCHANGED rendered
    /\ UNCHANGED <<policyVars, matchVars, substVars, catalogVars, gatewayVars,
                   tableVars, staleVars, urlVars>>

NextTrunc == CallTruncateResponse

SpecTrunc == InitTrunc /\ [][NextTrunc]_vars

---------------------------------------------------------------------------
(* The URL one datadog.request is sent to.  The decision is taken on the
   string the agent supplied; the request goes to what the URL parser makes
   of "https://api.<site>" followed by that string. *)

MaxPieces == 2

\* index.ts: the default of DD_SITE
site == <<"d", "a", "t", "a", "d", "o", "g", "h", "q", ".", "c", "o", "m">>

\* The template literal of executor.ts: `https://api.${config.site}${path}`
href(p) ==
    <<"h", "t", "t", "p", "s", ":", "/", "/", "a", "p", "i", ".">> \o site \o p

\* The first position of s holding one of chars, Len(s) + 1 when none does
firstOf(s, chars) ==
    IF \E i \in 1..Len(s) : s[i] \in chars
    THEN CHOOSE i \in 1..Len(s) :
             /\ s[i] \in chars
             /\ \A j \in 1..(i - 1) : s[j] \notin chars
    ELSE Len(s) + 1

\* The path state of the URL parser over the pieces between slashes: "."
\* is dropped, ".." removes the segment before it, and either of them in
\* the last place leaves an empty last segment.
RECURSIVE removeDotSegments(_, _)
removeDotSegments(pieces, out) ==
    IF Len(pieces) = 0 THEN out
    ELSE LET piece == Head(pieces)
             last == Len(pieces) = 1
             closed(segs) == IF last THEN Append(segs, <<>>) ELSE segs
         IN  IF piece = <<".", ".">>
             THEN removeDotSegments(Tail(pieces),
                      closed(IF Len(out) = 0 THEN out
                             ELSE SubSeq(out, 1, Len(out) - 1)))
             ELSE IF piece = <<".">>
             THEN removeDotSegments(Tail(pieces), closed(out))
             ELSE removeDotSegments(Tail(pieces), Append(out, piece))

\* new URL(input) for an https input: the authority runs to the first of
\* "/", "\", "?" and "#", the host is what follows its last "@", the path
\* runs to the first "?" or "#" with "\" read as "/", the query to the
\* first "#".  An empty host makes the constructor throw.
URL(input) ==
    LET rest == SubSeq(input, 9, Len(input))
        authorityEnd == firstOf(rest, {"/", "\\", "?", "#"})
        authority == SubSeq(rest, 1, authorityEnd - 1)
        ats == {i \in 1..Len(authority) : authority[i] = "@"}
        lastAt == IF ats = {} THEN 0
                  ELSE CHOOSE i \in ats : \A j \in ats : j <= i
        host == SubSeq(authority, lastAt + 1, Len(authority))
        tail == SubSeq(rest, authorityEnd, Len(rest))
        pathEnd == firstOf(tail, {"?", "#"})
        upToQuery == SubSeq(tail, 1, pathEnd - 1)
        rawPath == [i \in 1..Len(upToQuery) |->
                       IF upToQuery[i] = "\\" THEN "/" ELSE upToQuery[i]]
        afterPath == SubSeq(tail, pathEnd, Len(tail))
        queryEnd == firstOf(afterPath, {"#"})
        query == SubSeq(afterPath, 1, queryEnd - 1)
        pieces == split(IF startsWith(rawPath, <<"/">>)
                        THEN Tail(rawPath) ELSE rawPath)
    IN  [throws |-> host = <<>>,
         host |-> host,
         pathname |-> <<"/">> \o join(removeDotSegments(pieces, <<>>)),
         search |-> IF Len(query) <= 1 THEN <<>> ELSE query]

\* datadog.request up to its call of fetch: what the call becomes, and the
\* method, host and path of the request fetch is given.
send(m, p) ==
    IF request(1, m, p).fetches = {}
    THEN [pc |-> "rejected", error |-> "Blocked"]
    ELSE IF URL(href(p)).throws
    THEN [pc |-> "rejected", error |-> "TypeError"]
    ELSE [pc |-> "awaiting", method |-> m, host |-> URL(href(p)).host,
          pathname |-> URL(href(p)).pathname,
          search |-> URL(href(p)).search]

UrlMethods == {GET, POST, PUT, <<"d", "e", "l", "e", "t", "e">>}

UrlBases == {
    <<>>,
    ApiV1 \o <<"/", "m", "o", "n", "i", "t", "o", "r">>,
    Notebooks,
    Notebooks \o <<"/", "9", "9">>,
    LogsEventsSearch }

UrlPieces == {
    <<"?">>, <<"#">>, <<"@">>, <<"@", "e">>,
    <<"/", ".", ".">>, <<"/", ".">>, <<"\\", ".", ".">>,
    <<"/", "s", "e", "a", "r", "c", "h">>,
    <<"/", "x">>, <<"\\", "x">> }

\* The supplied paths: a base followed by at most n pieces
RECURSIVE UrlPaths(_)
UrlPaths(n) ==
    IF n = 0 THEN UrlBases
    ELSE LET shorter == UrlPaths(n - 1)
         IN  shorter \cup {p \o piece : p \in shorter, piece \in UrlPieces}

InitUrl ==
    /\ reqMethod \in UrlMethods
    /\ reqPath \in UrlPaths(MaxPieces)
    /\ sent = <<>>
    /\ IdlePolicy
    /\ IdleMatch
    /\ IdleSubst
    /\ IdleCatalog
    /\ IdleGateway
    /\ IdleTables
    /\ IdleStale
    /\ IdleTrunc

DatadogRequest ==
    /\ sent = <<>>
    /\ sent' = <<send(reqMethod, reqPath)>>
    /\ UNCHANGED <<reqMethod, reqPath>>
    /\ UNCHANGED <<policyVars, matchVars, substVars, catalogVars, gatewayVars,
                   tableVars, staleVars, truncVars>>

NextUrl == DatadogRequest

SpecUrl == InitUrl /\ [][NextUrl]_vars

\* C21: whenever datadog.request hands a request to fetch, the method with
\* the path component of the parsed URL is itself permitted by
\* isAllowedRuntimeRequest: the path decided on and the path sent to never
\* differ in a way that changes the decision.
C21_SentIsPermitted ==
    (sent # <<>> /\ sent[1].pc = "awaiting") =>
        isAllowedRuntimeRequest(sent[1].method, sent[1].pathname)

====
